---- MODULE Spec2Model ----
(***************************************************************************)
(* Model of the two refresh jobs of intelligent-model-selector:            *)
(*   - refresh_aa_performance_metrics.py : fetch -> transform ->           *)
(*     refresh_database_table (backup / delete / insert / commit / drop,   *)
(*     with rollback and best-effort restore on failure);                  *)
(*   - selector-service/refresh_model_aa_mapping.py : clear -> read two    *)
(*     sources -> match slugs -> bulk insert.                              *)
(*                                                                         *)
(* The database is PostgreSQL reached through psycopg2 with autocommit     *)
(* off: every statement, DDL included, acts on the connection's open       *)
(* transaction; commit() publishes it, rollback() or closing the           *)
(* connection discards it.  The model therefore keeps, for each table, the *)
(* committed contents and the contents seen inside the open transaction.   *)
(***************************************************************************)
EXTENDS Integers, Sequences, FiniteSets, TLC

\* ---------------------------------------------------------------- bounds
MaxModels == 3      \* longest API payload handed to transform_to_db_format
MaxRecords == 2     \* longest record list / API payload of the metrics pipeline
MaxCalls == 3       \* calls of refresh_database_table / main in one behaviour

\* ------------------------------------------------------- python values
\* Python's None (the result of dict.get on a missing key, or a JSON null).
\* Metric values are non-negative, so -1 is free to stand for it.
None == -1

\* The empty dict {} used as the default of model.get("evaluations", {}).
EmptyDict == <<>>

\* dict.get(key, default): dicts are functions from key strings to values.
Get(d, k, default) == IF k \in DOMAIN d THEN d[k] ELSE default

\* ------------------------------------------------- transform_to_db_format
\* The test of line 88 written as "if not intelligence_index".
SkipModel_falsy(intelligence_index) == intelligence_index = None \/ intelligence_index = 0

\* Line 88: "if intelligence_index is None: continue".
SkipModel(intelligence_index) == intelligence_index = None

\* Lines 91-127: the record built for one model (the fields the model of the
\* pipeline tracks; the remaining fields are further .get() copies).
MakeRecord(model, evaluations, intelligence_index) ==
    [ aa_model_id        |-> Get(model, "id", None),
      intelligence_index |-> intelligence_index,
      coding_index       |-> Get(evaluations, "artificial_analysis_coding_index", None) ]

\* Lines 77-133: the loop over api_data, appending one record per kept model.
RECURSIVE TransformFrom(_, _, _)
TransformFrom(api_data, i, records) ==
    IF i > Len(api_data) THEN records
    ELSE LET model == api_data[i]
             evaluations == Get(model, "evaluations", EmptyDict)
             intelligence_index ==
                 Get(evaluations, "artificial_analysis_intelligence_index", None)
         IN  IF SkipModel(intelligence_index)
             THEN TransformFrom(api_data, i + 1, records)
             ELSE TransformFrom(api_data, i + 1,
                      Append(records, MakeRecord(model, evaluations, intelligence_index)))

transform_to_db_format(api_data) == TransformFrom(api_data, 1, <<>>)

\* ---------------------------------------------------------------- inputs
\* Model objects as the API returns them: "evaluations" is an object (or the
\* key is absent); the primary metric inside it is a number, null or absent.
Eval(ii) == [ artificial_analysis_intelligence_index |-> ii ]

ModelObjects ==
    { [ id |-> 1, evaluations |-> Eval(1) ],
      [ id |-> 2, evaluations |-> Eval(0) ],
      [ id |-> 3, evaluations |-> Eval(None) ],
      [ id |-> 4, evaluations |-> [ artificial_analysis_coding_index |-> 1 ] ],
      [ id |-> 5 ] }

SeqsUpTo(S, n) == UNION { [1..k -> S] : k \in 0..n }

ApiPayloads == SeqsUpTo(ModelObjects, MaxModels)

\* The model objects of the metrics pipeline's runs.
PipelineModels ==
    { [ id |-> 1, evaluations |-> Eval(1) ],
      [ id |-> 2, evaluations |-> Eval(0) ],
      [ id |-> 3, evaluations |-> Eval(None) ] }

\* Line 58: fetch_aa_performance_data never returns an empty list.
PipelinePayloads == SeqsUpTo(PipelineModels, MaxRecords) \ { <<>> }

RowSet == { transform_to_db_format(<<m>>)[1] :
              m \in { x \in PipelineModels : transform_to_db_format(<<x>>) # <<>> } }

RecordLists == SeqsUpTo(RowSet, MaxRecords)

\* ------------------------------------------------------ database tables
\* A table that does not exist, and a table holding rows.
NoTable == [ exists |-> FALSE, rows |-> <<>> ]
Table(rows) == [ exists |-> TRUE, rows |-> rows ]

VARIABLES
    target,      \* committed rows of ims."20_aa_performance_metrics"
    backup,      \* committed state of ims."20_aa_performance_metrics_backup"
    txTarget,    \* the target's rows as seen in the connection's open transaction
    txBackup,    \* the backup table as seen in the open transaction
    conn,        \* "closed", "open" or "lost" (the server connection is gone)
    pc,          \* position in main / refresh_database_table
    api_data,    \* main's api_data
    records,     \* refresh_database_table's argument (main's db_records)
    viaMain,     \* TRUE when the loader runs under main, FALSE when called directly
    outcome,     \* how the loader call ended: "none", "ok", "raised"
    exitCode,    \* main's exit status, None while it has not exited
    target0,     \* history: the target's rows when the call began
    stale0,      \* history: a backup table existed when the call began
    failedStep,  \* history: the first step of the call that raised, or "none"
    restore,     \* history: "none", "ok", "failed", "skipped"
    prev,        \* history: the previous call, when it was a failure-free loader call
    calls        \* number of calls begun

metricsVars == << target, backup, txTarget, txBackup, conn, pc, api_data, records,
                  viaMain, outcome, exitCode, target0, stale0, failedStep, restore,
                  prev, calls >>

NoCall == [ clean |-> FALSE, records |-> <<>>, stale |-> FALSE,
            target |-> <<>>, backup |-> NoTable ]

VARIABLES
    q_provider_slug,  \* the matcher's provider_slug argument
    q_aa_slugs,       \* the matcher's aa_slugs argument
    q_result,         \* the matcher's return value
    q_pc              \* "call" before the matcher ran, "done" after

matchVars == << q_provider_slug, q_aa_slugs, q_result, q_pc >>

VARIABLES
    mapping,          \* committed rows of ims."10_model_aa_mapping"
    txMapping,        \* the mapping table as seen in the open transaction
    mapping0,         \* history: the mapping table's rows when the run began
    working_version,  \* rows (inference_provider, provider_slug) of public.working_version
    aa_table,         \* the aa_slug column of ims."20_aa_performance_metrics"
    mconn,            \* "closed", "open" or "lost"
    mpc,              \* position in the mapping pipeline's main
    m_models,         \* main's models
    m_aa_slugs,       \* main's aa_slugs
    m_mappings,       \* main's mappings
    success,          \* main's return value: "none", "True", "False"
    cleared,          \* history: the run's clear step committed
    mfailed,          \* history: the step at which the run gave up, or "none"
    mruns             \* number of runs begun

mappingVars == << mapping, txMapping, mapping0, working_version, aa_table, mconn, mpc,
                  m_models, m_aa_slugs, m_mappings, success, cleared, mfailed, mruns >>

vars == << metricsVars, matchVars, mappingVars >>

\* ============================================================ slug strings
\* A slug is a sequence of characters.  str.lower() on one character:
Lower(c) == CASE c = "A" -> "a"
              [] c = "B" -> "b"
              [] OTHER   -> c

\* str.lower().
LowerStr(str) == [ i \in 1..Len(str) |-> Lower(str[i]) ]

\* str.endswith(suffix).
EndsWith(str, suffix) ==
    /\ Len(suffix) <= Len(str)
    /\ SubSeq(str, Len(str) - Len(suffix) + 1, Len(str)) = suffix

\* "sub in str".
Contains(str, sub) ==
    \E i \in 0..(Len(str) - Len(sub)) : SubSeq(str, i + 1, i + Len(sub)) = sub

\* Python's None where a slug is expected (the matcher's "no match", a NULL
\* column): a value that is no string of characters.
NoSlug == << "None" >>

\* ------------------------------------------ match_provider_slug_to_aa_slug
\* Line 98: next(slug for slug in aa_slugs if slug.lower() == provider_slug_lower).
RECURSIVE FirstExact(_, _, _)
FirstExact(aa_slugs, i, provider_slug_lower) ==
    IF i > Len(aa_slugs) THEN NoSlug
    ELSE IF LowerStr(aa_slugs[i]) = provider_slug_lower THEN aa_slugs[i]
    ELSE FirstExact(aa_slugs, i + 1, provider_slug_lower)

\* Lines 101-103: the first aa_slug whose lowercase ends with provider_slug_lower.
RECURSIVE FirstSuffix(_, _, _)
FirstSuffix(aa_slugs, i, provider_slug_lower) ==
    IF i > Len(aa_slugs) THEN NoSlug
    ELSE IF EndsWith(LowerStr(aa_slugs[i]), provider_slug_lower) THEN aa_slugs[i]
    ELSE FirstSuffix(aa_slugs, i + 1, provider_slug_lower)

\* Lines 106-108: the first aa_slug whose lowercase contains provider_slug_lower.
RECURSIVE FirstContains(_, _, _)
FirstContains(aa_slugs, i, provider_slug_lower) ==
    IF i > Len(aa_slugs) THEN NoSlug
    ELSE IF Contains(LowerStr(aa_slugs[i]), provider_slug_lower) THEN aa_slugs[i]
    ELSE FirstContains(aa_slugs, i + 1, provider_slug_lower)

\* The matcher with the substring loop run before the suffix loop.
match_substring_before_suffix(provider_slug, inference_provider, aa_slugs) ==
    LET provider_slug_lower == LowerStr(provider_slug)
        exact    == FirstExact(aa_slugs, 1, provider_slug_lower)
        suffix   == FirstSuffix(aa_slugs, 1, provider_slug_lower)
        contains == FirstContains(aa_slugs, 1, provider_slug_lower)
    IN  IF exact # NoSlug THEN exact
        ELSE IF contains # NoSlug THEN contains
        ELSE IF suffix # NoSlug THEN suffix
        ELSE NoSlug

\* Lines 85-110.
match_provider_slug_to_aa_slug(provider_slug, inference_provider, aa_slugs) ==
    LET provider_slug_lower == LowerStr(provider_slug)
        exact    == FirstExact(aa_slugs, 1, provider_slug_lower)
        suffix   == FirstSuffix(aa_slugs, 1, provider_slug_lower)
        contains == FirstContains(aa_slugs, 1, provider_slug_lower)
    IN  IF exact # NoSlug THEN exact
        ELSE IF suffix # NoSlug THEN suffix
        ELSE IF contains # NoSlug THEN contains
        ELSE NoSlug

\* The slugs the matcher is exercised on, provider side and aa side.
MaxSlugs == 3       \* longest aa_slugs list handed to the matcher

MatchSlugs ==
    { <<"a">>, <<"A">>, <<"b">>, <<"a", "b">>, <<"A", "b">>, <<"b", "a">>,
      <<"a", "b", "a">>, <<"b", "a", "b">> }

MatchLists == SeqsUpTo(MatchSlugs, MaxSlugs)

\* The matcher called once on arguments drawn from the sets above.
CallMatch ==
    /\ q_pc = "call"
    /\ q_result' = match_provider_slug_to_aa_slug(q_provider_slug, "groq", q_aa_slugs)
    /\ q_pc' = "done"
    /\ UNCHANGED << q_provider_slug, q_aa_slugs >>
    /\ UNCHANGED << metricsVars, mappingVars >>

\* ============================================================ metrics job
\* ----------------------------------------------- refresh_aa_performance_metrics.main
\* The test of line 252 never taken.
NoRecords_never(db_records) == FALSE

\* Line 252: "if not db_records".
NoRecords(db_records) == db_records = <<>>

\* What every call resets: the per-call history.
BeginCall ==
    /\ pc \in {"idle", "ended"}
    /\ calls < MaxCalls
    /\ calls' = calls + 1
    /\ prev' = IF pc = "ended" /\ failedStep = "none" /\ outcome = "ok"
               THEN [ clean   |-> TRUE,
                      records |-> records,
                      stale   |-> stale0,
                      target  |-> target,
                      backup  |-> backup ]
               ELSE NoCall
    /\ target0' = target
    /\ stale0' = backup.exists
    /\ restore' = "none"
    /\ outcome' = "none"

\* Lines 241-247: main starts and fetch_aa_performance_data returns a payload.
MainFetch ==
    /\ BeginCall
    /\ \E a \in PipelinePayloads : api_data' = a
    /\ viaMain' = TRUE
    /\ records' = <<>>
    /\ failedStep' = "none"
    /\ exitCode' = None
    /\ pc' = "transform"
    /\ UNCHANGED << target, backup, txTarget, txBackup, conn >>
    /\ UNCHANGED << matchVars, mappingVars >>

\* Lines 37-38, 48-49, 58-59 raise; lines 265-269 turn that into exit status 1.
MainFetchFails ==
    /\ BeginCall
    /\ failedStep' = "fetch"
    /\ exitCode' = 1
    /\ viaMain' = TRUE
    /\ api_data' = <<>>
    /\ records' = <<>>
    /\ pc' = "idle"
    /\ UNCHANGED << target, backup, txTarget, txBackup, conn >>
    /\ UNCHANGED << matchVars, mappingVars >>

\* Line 250: db_records = transform_to_db_format(api_data).
MainTransform ==
    /\ pc = "transform"
    /\ records' = transform_to_db_format(api_data)
    /\ pc' = "check"
    /\ UNCHANGED << target, backup, txTarget, txBackup, conn, api_data, viaMain,
                    outcome, exitCode, target0, stale0, failedStep, restore, prev,
                    calls >>
    /\ UNCHANGED << matchVars, mappingVars >>

\* Lines 252-254: with no records main returns (exit status 0) without calling
\* the loader; line 257 otherwise.
MainCheck ==
    /\ pc = "check"
    /\ IF NoRecords(records)
       THEN /\ exitCode' = 0
            /\ pc' = "idle"
       ELSE /\ exitCode' = exitCode
            /\ pc' = "connect"
    /\ UNCHANGED << target, backup, txTarget, txBackup, conn, api_data, records,
                    viaMain, outcome, target0, stale0, failedStep, restore, prev,
                    calls >>
    /\ UNCHANGED << matchVars, mappingVars >>

\* ---------------------------------------------------- refresh_database_table
\* A direct call of refresh_database_table(records), outside main.
CallLoader ==
    /\ BeginCall
    /\ \E r \in RecordLists : records' = r
    /\ viaMain' = FALSE
    /\ failedStep' = "none"
    /\ exitCode' = None
    /\ api_data' = <<>>
    /\ pc' = "connect"
    /\ UNCHANGED << target, backup, txTarget, txBackup, conn >>
    /\ UNCHANGED << matchVars, mappingVars >>

\* Lines 150-155: connect, autocommit off, open a cursor.  A failure here is
\* raised outside the try block: no rollback, no restore, no finally.
Connect ==
    /\ pc = "connect"
    /\ \/ /\ conn' = "open"
          /\ pc' = "backup"
          /\ UNCHANGED << failedStep, outcome >>
       \/ /\ conn' = "closed"
          /\ failedStep' = "connect"
          /\ outcome' = "raised"
          /\ pc' = "return"
    /\ txTarget' = target
    /\ txBackup' = backup
    /\ UNCHANGED << target, backup, api_data, records, viaMain, exitCode, target0,
                    stale0, restore, prev, calls >>
    /\ UNCHANGED << matchVars, mappingVars >>

\* A statement or commit at the current step raises: control enters the except
\* block (line 214).  Either the statement failed on a live connection, or the
\* connection to the server was lost.
Raise ==
    /\ failedStep' = pc
    /\ \E lost \in BOOLEAN : conn' = IF lost THEN "lost" ELSE conn
    /\ pc' = "rollback"

\* Lines 161-164: DROP TABLE IF EXISTS backup; CREATE TABLE backup AS SELECT * FROM target.
BackupOf(rows, oldBackup) == Table(rows)

\* Step 1, lines 158-168.
Step1Backup ==
    /\ pc = "backup"
    /\ \/ /\ txBackup' = BackupOf(txTarget, txBackup)
          /\ pc' = "delete"
          /\ UNCHANGED << failedStep, conn >>
       \/ /\ Raise
          /\ UNCHANGED txBackup
    /\ UNCHANGED << target, backup, txTarget, api_data, records, viaMain, outcome,
                    exitCode, target0, stale0, restore, prev, calls >>
    /\ UNCHANGED << matchVars, mappingVars >>

\* Step 2, lines 170-174: DELETE FROM target.
Step2Delete ==
    /\ pc = "delete"
    /\ \/ /\ txTarget' = <<>>
          /\ pc' = "insert"
          /\ UNCHANGED << failedStep, conn >>
       \/ /\ Raise
          /\ UNCHANGED txTarget
    /\ UNCHANGED << target, backup, txBackup, api_data, records, viaMain, outcome,
                    exitCode, target0, stale0, restore, prev, calls >>
    /\ UNCHANGED << matchVars, mappingVars >>

\* Step 3, lines 176-202: executemany inserts the records one by one; a failure
\* at record k leaves the first k-1 in the open transaction.
Step3Insert ==
    /\ pc = "insert"
    /\ \/ /\ txTarget' = txTarget \o records
          /\ pc' = "commit"
          /\ UNCHANGED << failedStep, conn >>
       \/ /\ \E k \in 1..Len(records) :
                txTarget' = txTarget \o SubSeq(records, 1, k - 1)
          /\ Raise
    /\ UNCHANGED << target, backup, txBackup, api_data, records, viaMain, outcome,
                    exitCode, target0, stale0, restore, prev, calls >>
    /\ UNCHANGED << matchVars, mappingVars >>

\* Step 4, lines 204-206: conn.commit() publishes the backup table and the new
\* rows; a commit that raises has published nothing.
Step4Commit ==
    /\ pc = "commit"
    /\ \/ /\ target' = txTarget
          /\ backup' = txBackup
          /\ pc' = "drop"
          /\ UNCHANGED << failedStep, conn >>
       \/ /\ Raise
          /\ UNCHANGED << target, backup >>
    /\ UNCHANGED << txTarget, txBackup, api_data, records, viaMain, outcome,
                    exitCode, target0, stale0, restore, prev, calls >>
    /\ UNCHANGED << matchVars, mappingVars >>

\* A drop that leaves the backup table in place.
Dropped_kept(oldBackup) == oldBackup

\* Line 208: DROP TABLE IF EXISTS backup.
Dropped(oldBackup) == NoTable

\* Step 5, line 208: the drop, inside the same try block.
Step5Drop ==
    /\ pc = "drop"
    /\ \/ /\ txBackup' = Dropped(txBackup)
          /\ pc' = "dropcommit"
          /\ UNCHANGED << failedStep, conn >>
       \/ /\ Raise
          /\ UNCHANGED txBackup
    /\ UNCHANGED << target, backup, txTarget, api_data, records, viaMain, outcome,
                    exitCode, target0, stale0, restore, prev, calls >>
    /\ UNCHANGED << matchVars, mappingVars >>

\* Step 5, lines 209-212: the drop's commit; the try block ends normally.
Step5Commit ==
    /\ pc = "dropcommit"
    /\ \/ /\ target' = txTarget
          /\ backup' = txBackup
          /\ outcome' = "ok"
          /\ pc' = "finally"
          /\ UNCHANGED << failedStep, conn >>
       \/ /\ Raise
          /\ UNCHANGED << target, backup, outcome >>
    /\ UNCHANGED << txTarget, txBackup, api_data, records, viaMain,
                    exitCode, target0, stale0, restore, prev, calls >>
    /\ UNCHANGED << matchVars, mappingVars >>

\* Lines 214-217: conn.rollback() discards the open transaction, the backup
\* table created in it included.  On a lost connection rollback() itself
\* raises, and the handler is left before the restore.
Rollback ==
    /\ pc = "rollback"
    /\ \/ /\ conn = "open"
          /\ pc' = "restore"
          /\ UNCHANGED << conn, restore, outcome >>
       \/ /\ conn' = "lost"
          /\ restore' = "skipped"
          /\ outcome' = "raised"
          /\ pc' = "finally"
    /\ txTarget' = target
    /\ txBackup' = backup
    /\ UNCHANGED << target, backup, api_data, records, viaMain, exitCode, target0,
                    stale0, failedStep, prev, calls >>
    /\ UNCHANGED << matchVars, mappingVars >>

\* Lines 223-225: DELETE FROM target; INSERT INTO target SELECT * FROM backup.
RestoredRows(oldRows, backupRows) == backupRows

\* Lines 219-232: the best-effort restore, committed as its own transaction;
\* it cannot succeed when the backup table does not exist.  Either way the
\* original error is re-raised.
Restore ==
    /\ pc = "restore"
    /\ \/ /\ txBackup.exists
          /\ target' = RestoredRows(txTarget, txBackup.rows)
          /\ txTarget' = RestoredRows(txTarget, txBackup.rows)
          /\ restore' = "ok"
          /\ UNCHANGED conn
       \/ /\ \E lost \in BOOLEAN : conn' = IF lost THEN "lost" ELSE conn
          /\ restore' = "failed"
          /\ UNCHANGED << target, txTarget >>
    /\ outcome' = "raised"
    /\ pc' = "finally"
    /\ UNCHANGED << backup, txBackup, api_data, records, viaMain, exitCode, target0,
                    stale0, failedStep, prev, calls >>
    /\ UNCHANGED << matchVars, mappingVars >>

\* Lines 234-237: cur.close(), conn.close(); what was not committed is gone.
Finally ==
    /\ pc = "finally"
    /\ conn' = "closed"
    /\ txTarget' = target
    /\ txBackup' = backup
    /\ pc' = "return"
    /\ UNCHANGED << target, backup, api_data, records, viaMain, outcome, exitCode,
                    target0, stale0, failedStep, restore, prev, calls >>
    /\ UNCHANGED << matchVars, mappingVars >>

\* The call returns or raises to its caller; under main, lines 259-269 make
\* that exit status 0 or 1.
LoaderReturn ==
    /\ pc = "return"
    /\ exitCode' = IF viaMain THEN (IF outcome = "ok" THEN 0 ELSE 1) ELSE None
    /\ pc' = "ended"
    /\ UNCHANGED << target, backup, txTarget, txBackup, conn, api_data, records,
                    viaMain, outcome, target0, stale0, failedStep, restore, prev,
                    calls >>
    /\ UNCHANGED << matchVars, mappingVars >>

InitMetricsVars ==
    /\ target \in { <<>> } \cup { <<r>> : r \in RowSet }
    /\ backup = NoTable
    /\ txTarget = target
    /\ txBackup = backup
    /\ conn = "closed"
    /\ pc = "idle"
    /\ api_data = <<>>
    /\ records = <<>>
    /\ viaMain = FALSE
    /\ outcome = "none"
    /\ exitCode = None
    /\ target0 = target
    /\ stale0 = FALSE
    /\ failedStep = "none"
    /\ restore = "none"
    /\ prev = NoCall
    /\ calls = 0

NextMetrics ==
    \/ MainFetch \/ MainFetchFails \/ MainTransform \/ MainCheck
    \/ CallLoader \/ Connect
    \/ Step1Backup \/ Step2Delete \/ Step3Insert \/ Step4Commit
    \/ Step5Drop \/ Step5Commit
    \/ Rollback \/ Restore \/ Finally \/ LoaderReturn

\* transform_to_db_format alone, on every payload within the bounds.
InitTransformVars ==
    /\ api_data \in ApiPayloads
    /\ pc = "transform"
    /\ viaMain = TRUE
    /\ calls = 1
    /\ target = <<>>
    /\ backup = NoTable
    /\ txTarget = target
    /\ txBackup = backup
    /\ conn = "closed"
    /\ records = <<>>
    /\ outcome = "none"
    /\ exitCode = None
    /\ target0 = target
    /\ stale0 = FALSE
    /\ failedStep = "none"
    /\ restore = "none"
    /\ prev = NoCall

\* The variables of the jobs a specification does not exercise.
IdleMetricsVars ==
    /\ target = <<>>
    /\ backup = NoTable
    /\ txTarget = <<>>
    /\ txBackup = NoTable
    /\ conn = "closed"
    /\ pc = "off"
    /\ api_data = <<>>
    /\ records = <<>>
    /\ viaMain = FALSE
    /\ outcome = "none"
    /\ exitCode = None
    /\ target0 = <<>>
    /\ stale0 = FALSE
    /\ failedStep = "none"
    /\ restore = "none"
    /\ prev = NoCall
    /\ calls = 0

IdleMatchVars ==
    /\ q_provider_slug = <<>>
    /\ q_aa_slugs = <<>>
    /\ q_result = <<>>
    /\ q_pc = "off"

IdleMappingVars ==
    /\ mapping = <<>>
    /\ txMapping = <<>>
    /\ mapping0 = <<>>
    /\ working_version = <<>>
    /\ aa_table = <<>>
    /\ mconn = "closed"
    /\ mpc = "off"
    /\ m_models = <<>>
    /\ m_aa_slugs = <<>>
    /\ m_mappings = <<>>
    /\ success = "none"
    /\ cleared = FALSE
    /\ mfailed = "none"
    /\ mruns = 0

InitMetrics == InitMetricsVars /\ IdleMatchVars /\ IdleMappingVars

SpecMetrics == InitMetrics /\ [][NextMetrics]_vars

InitTransform == InitTransformVars /\ IdleMatchVars /\ IdleMappingVars

NextTransform == MainTransform

SpecTransform == InitTransform /\ [][NextTransform]_vars

\* ============================================================ mapping job
MaxRuns == 2        \* runs of the mapping pipeline in one behaviour
MaxSourceRows == 2  \* most rows of public.working_version

\* ORDER BY on the text columns: characters and providers in ascending order.
CharOrder == << "a", "b", "c" >>
ProviderOrder == << "groq", "openai" >>

CharRank(c) == CHOOSE i \in 1..Len(CharOrder) : CharOrder[i] = c
ProviderRank(p) == CHOOSE i \in 1..Len(ProviderOrder) : ProviderOrder[i] = p

RECURSIVE LexLess(_, _, _)
LexLess(str, other, i) ==
    IF i > Len(other) THEN FALSE
    ELSE IF i > Len(str) THEN TRUE
    ELSE IF str[i] # other[i] THEN CharRank(str[i]) < CharRank(other[i])
    ELSE LexLess(str, other, i + 1)

\* Ascending text order, NULL last.
SlugLess(str, other) ==
    IF str = NoSlug THEN FALSE
    ELSE IF other = NoSlug THEN TRUE
    ELSE LexLess(str, other, 1)

PairLess(m, n) ==
    \/ ProviderRank(m[1]) < ProviderRank(n[1])
    \/ m[1] = n[1] /\ SlugLess(m[2], n[2])

RECURSIVE SortedSlugs(_)
SortedSlugs(S) ==
    IF S = {} THEN <<>>
    ELSE LET least == CHOOSE x \in S : \A y \in S \ {x} : SlugLess(x, y)
         IN  << least >> \o SortedSlugs(S \ {least})

RECURSIVE SortedPairs(_)
SortedPairs(S) ==
    IF S = {} THEN <<>>
    ELSE LET least == CHOOSE x \in S : \A y \in S \ {x} : PairLess(x, y)
         IN  << least >> \o SortedPairs(S \ {least})

Range(seq) == { seq[i] : i \in 1..Len(seq) }

\* The query of lines 53-61 without DISTINCT (and unordered).
DistinctModels_all(rows) ==
    LET kept == SelectSeq(rows, LAMBDA x : x.provider_slug # NoSlug /\ x.provider_slug # <<>>)
    IN  [ i \in 1..Len(kept) |-> << kept[i].inference_provider, kept[i].provider_slug >> ]

\* Lines 53-61: SELECT DISTINCT inference_provider, provider_slug ... WHERE
\* provider_slug IS NOT NULL AND provider_slug != '' ORDER BY both columns.
DistinctModels(rows) ==
    SortedPairs({ << r.inference_provider, r.provider_slug >> :
                    r \in { x \in Range(rows) :
                              x.provider_slug # NoSlug /\ x.provider_slug # <<>> } })

\* Lines 73-78: SELECT DISTINCT aa_slug ... ORDER BY aa_slug.
DistinctSlugs(column) == SortedSlugs(Range(column))

\* Line 122: "if aa_slug" -- None and the empty string are falsy.
Truthy(aa_slug) == aa_slug # NoSlug /\ aa_slug # <<>>

\* Lines 114-145: one mapping per model the matcher resolves (the two
\* timestamps of a mapping are not modelled); unmatched models are only listed.
RECURSIVE MappingsFrom(_, _, _, _)
MappingsFrom(models, aa_slugs, i, mappings) ==
    IF i > Len(models) THEN mappings
    ELSE LET inference_provider == models[i][1]
             provider_slug == models[i][2]
             aa_slug == match_provider_slug_to_aa_slug(provider_slug,
                                                       inference_provider, aa_slugs)
         IN  IF Truthy(aa_slug)
             THEN MappingsFrom(models, aa_slugs, i + 1,
                      Append(mappings, [ provider_slug      |-> provider_slug,
                                         aa_slug            |-> aa_slug,
                                         inference_provider |-> inference_provider ]))
             ELSE MappingsFrom(models, aa_slugs, i + 1, mappings)

create_mappings(models, aa_slugs) == MappingsFrom(models, aa_slugs, 1, <<>>)

\* Line 97 calls slug.lower() on every aa_slug: a NULL aa_slug raises.
MatchRaises(aa_slugs) == NoSlug \in Range(aa_slugs)

\* The contents the two source tables may have when a run begins.
SourceRows ==
    { [ inference_provider |-> "groq",   provider_slug |-> <<"a">> ],
      [ inference_provider |-> "openai", provider_slug |-> <<"a">> ],
      [ inference_provider |-> "groq",   provider_slug |-> <<"c">> ],
      [ inference_provider |-> "groq",   provider_slug |-> <<>> ] }

SourceTables == SeqsUpTo(SourceRows, MaxSourceRows)

AaColumns ==
    { <<>>,
      << <<"b">> >>,
      << <<"b", "a">>, <<"a", "b">> >>,
      << <<"a", "b">>, <<"b">>, <<"a", "b">> >>,
      << <<"b">>, NoSlug >> }

\* A clear step that deletes nothing.
ClearedRows_kept(rows) == rows

\* Line 39: DELETE FROM the mapping table.
ClearedRows(rows) == <<>>

\* Lines 172-179 and 26-33: main starts on the tables as they are now and
\* connects; a failed connect exits the process (status 1) before the try block.
MStart ==
    /\ mpc \in {"idle", "exit"}
    /\ mruns < MaxRuns
    /\ mruns' = mruns + 1
    /\ \E w \in SourceTables : working_version' = w
    /\ \E a \in AaColumns : aa_table' = a
    /\ mapping0' = mapping
    /\ txMapping' = mapping
    /\ m_models' = <<>>
    /\ m_aa_slugs' = <<>>
    /\ m_mappings' = <<>>
    /\ success' = "none"
    /\ cleared' = FALSE
    /\ \/ /\ mconn' = "open"
          /\ mfailed' = "none"
          /\ mpc' = "clear"
       \/ /\ mconn' = "closed"
          /\ mfailed' = "connect"
          /\ mpc' = "exit"
    /\ UNCHANGED mapping
    /\ UNCHANGED << metricsVars, matchVars >>

\* Lines 35-47 and 183-184: the clear step deletes and commits; on an error it
\* rolls back and main returns False.
MClear ==
    /\ mpc = "clear"
    /\ \/ /\ mapping' = ClearedRows(txMapping)
          /\ txMapping' = ClearedRows(txMapping)
          /\ cleared' = TRUE
          /\ mpc' = "fetch_models"
          /\ UNCHANGED << success, mfailed >>
       \/ /\ success' = "False"
          /\ mfailed' = "clear"
          /\ mpc' = "close"
          /\ UNCHANGED << mapping, txMapping, cleared >>
    /\ UNCHANGED << mapping0, working_version, aa_table, mconn, m_models, m_aa_slugs,
                    m_mappings, mruns >>
    /\ UNCHANGED << metricsVars, matchVars >>

\* Lines 49-67 and 187-190: a failed query yields [], and with no models main
\* returns False.
MFetchModels ==
    /\ mpc = "fetch_models"
    /\ \/ m_models' = DistinctModels(working_version)
       \/ m_models' = <<>>
    /\ IF m_models' = <<>>
       THEN /\ success' = "False"
            /\ mfailed' = "no_models"
            /\ mpc' = "close"
       ELSE /\ mpc' = "fetch_slugs"
            /\ UNCHANGED << success, mfailed >>
    /\ UNCHANGED << mapping, txMapping, mapping0, working_version, aa_table, mconn,
                    m_aa_slugs, m_mappings, cleared, mruns >>
    /\ UNCHANGED << metricsVars, matchVars >>

\* Lines 69-83 and 193-196: likewise for the aa_slug list.
MFetchSlugs ==
    /\ mpc = "fetch_slugs"
    /\ \/ m_aa_slugs' = DistinctSlugs(aa_table)
       \/ m_aa_slugs' = <<>>
    /\ IF m_aa_slugs' = <<>>
       THEN /\ success' = "False"
            /\ mfailed' = "no_slugs"
            /\ mpc' = "close"
       ELSE /\ mpc' = "create"
            /\ UNCHANGED << success, mfailed >>
    /\ UNCHANGED << mapping, txMapping, mapping0, working_version, aa_table, mconn,
                    m_models, m_mappings, cleared, mruns >>
    /\ UNCHANGED << metricsVars, matchVars >>

\* Lines 198-199; an exception of the matcher reaches lines 211-213.
MCreateMappings ==
    /\ mpc = "create"
    /\ IF MatchRaises(m_aa_slugs)
       THEN /\ success' = "False"
            /\ mfailed' = "match_error"
            /\ mpc' = "close"
            /\ UNCHANGED m_mappings
       ELSE /\ m_mappings' = create_mappings(m_models, m_aa_slugs)
            /\ mpc' = "insert"
            /\ UNCHANGED << success, mfailed >>
    /\ UNCHANGED << mapping, txMapping, mapping0, working_version, aa_table, mconn,
                    m_models, m_aa_slugs, cleared, mruns >>
    /\ UNCHANGED << metricsVars, matchVars >>

\* Lines 149-151: insert_mappings' answer to an empty list.
InsertOfNothing == "False"

\* Lines 147-170 and 202-209: nothing to insert is reported as False; otherwise
\* all mappings are inserted and committed in one transaction, or rolled back.
MInsert ==
    /\ mpc = "insert"
    /\ \/ /\ m_mappings = <<>>
          /\ success' = InsertOfNothing
          /\ mfailed' = IF InsertOfNothing = "True" THEN "none" ELSE "no_mappings"
          /\ UNCHANGED << mapping, txMapping >>
       \/ /\ m_mappings # <<>>
          /\ mapping' = txMapping \o m_mappings
          /\ txMapping' = txMapping \o m_mappings
          /\ success' = "True"
          /\ UNCHANGED mfailed
       \/ /\ m_mappings # <<>>
          /\ success' = "False"
          /\ mfailed' = "insert"
          /\ UNCHANGED << mapping, txMapping >>
    /\ mpc' = "close"
    /\ UNCHANGED << mapping0, working_version, aa_table, mconn, m_models, m_aa_slugs,
                    m_mappings, cleared, mruns >>
    /\ UNCHANGED << metricsVars, matchVars >>

\* Lines 214-215: conn.close(); lines 218-219 then exit with the status.
MClose ==
    /\ mpc = "close"
    /\ mconn' = "closed"
    /\ txMapping' = mapping
    /\ mpc' = "exit"
    /\ UNCHANGED << mapping, mapping0, working_version, aa_table, m_models, m_aa_slugs,
                    m_mappings, success, cleared, mfailed, mruns >>
    /\ UNCHANGED << metricsVars, matchVars >>

\* Lines 218-219 (and line 33): the process's exit status.
MappingExitStatus == IF success = "True" THEN 0 ELSE 1

InitMapping ==
    /\ mapping = <<>>
    /\ txMapping = <<>>
    /\ mapping0 = <<>>
    /\ working_version = <<>>
    /\ aa_table = <<>>
    /\ mconn = "closed"
    /\ mpc = "idle"
    /\ m_models = <<>>
    /\ m_aa_slugs = <<>>
    /\ m_mappings = <<>>
    /\ success = "none"
    /\ cleared = FALSE
    /\ mfailed = "none"
    /\ mruns = 0
    /\ IdleMetricsVars
    /\ IdleMatchVars

NextMapping ==
    \/ MStart \/ MClear \/ MFetchModels \/ MFetchSlugs
    \/ MCreateMappings \/ MInsert \/ MClose

SpecMapping == InitMapping /\ [][NextMapping]_vars

InitMatch ==
    /\ q_provider_slug \in MatchSlugs
    /\ q_aa_slugs \in MatchLists
    /\ q_result = NoSlug
    /\ q_pc = "call"
    /\ IdleMetricsVars
    /\ IdleMappingVars

NextMatch == CallMatch

SpecMatch == InitMatch /\ [][NextMatch]_vars

\* ================================================= claims: the metrics job
\* The call of refresh_database_table in progress has ended.
LoaderEnded == pc = "ended"

\* The call ended with no step failing.
CleanCall == LoaderEnded /\ failedStep = "none" /\ outcome = "ok"

\* C1: if the bulk insert (step 3) fails after the backup and delete steps ran,
\* then when the call ends the target table holds exactly the rows it held
\* when the call began, and the failure is reported: the call raises and,
\* under main, the process exits with a non-zero status.
C1_InsertFailureRestoresTable ==
    (LoaderEnded /\ failedStep = "insert")
        => /\ target = target0
           /\ outcome = "raised"
           /\ (viaMain => exitCode = 1)

\* C2: if dropping the backup table fails after the refresh has committed,
\* the refresh is not undone (neither rolled back nor replaced by the old rows
\* of the backup table): when the call ends the target table holds the newly
\* inserted records.
C2_FailedDropKeepsRefresh ==
    (LoaderEnded /\ failedStep \in {"drop", "dropcommit"}) => target = records

\* C3 as stated: refresh_database_table called with an empty record set leaves
\* the target table as it was before the call.
C3_LoaderKeepsTableOnEmpty ==
    (LoaderEnded /\ records = <<>>) => target = target0

\* C3 amended: when the transform yields no records, main never enters
\* refresh_database_table: it exits with status 0 and the target table is as
\* it was when main began.
C3_MainSkipsLoaderOnEmpty ==
    ( /\ viaMain
      /\ failedStep # "fetch"
      /\ pc \notin {"transform", "check"}
      /\ transform_to_db_format(api_data) = <<>> )
        => /\ pc = "idle"
           /\ exitCode = 0
           /\ outcome = "none"
           /\ target = target0

C3_Witness ==
    /\ viaMain
    /\ pc = "idle"
    /\ exitCode = 0
    /\ api_data # <<>>
    /\ records = <<>>
    /\ target # <<>>
    /\ target = target0

\* C5: two failure-free calls in succession with the same non-empty record
\* set leave, after each call, a target table equal to that record set and no
\* backup table -- also when a stale backup table existed before the first.
C5_TwiceSameRecords ==
    (CleanCall /\ records # <<>> /\ prev.clean /\ prev.records = records)
        => /\ target = records
           /\ backup = NoTable
           /\ prev.target = records
           /\ prev.backup = NoTable

C5_Witness ==
    /\ CleanCall
    /\ records # <<>>
    /\ prev.clean
    /\ prev.records = records
    /\ prev.stale
    /\ target = records
    /\ backup = NoTable

\* C8: if the backup, delete or insert step fails and the restore fails too,
\* then when the call ends the backup table exists and holds the rows the
\* target held when the call began, and the error reaches the caller.
C8_BackupLeftWhenRestoreFails ==
    (LoaderEnded /\ failedStep \in {"backup", "delete", "insert"} /\ restore = "failed")
        => /\ backup.exists
           /\ backup.rows = target0
           /\ outcome = "raised"

\* The model objects of a payload that lack the primary metric.
LacksPrimaryMetric(model) ==
    \/ "evaluations" \notin DOMAIN model
    \/ "artificial_analysis_intelligence_index" \notin DOMAIN model.evaluations
    \/ model.evaluations.artificial_analysis_intelligence_index = None

HasPrimaryMetric(model) == ~LacksPrimaryMetric(model)

\* C7: of M fetched models of which K lack the primary metric, the transform
\* returns exactly M-K records, in input order, each with a non-null
\* intelligence_index (the K others are dropped without an error).
C7_PrimaryMetricFilter ==
    pc = "check" =>
        LET M == Len(api_data)
            K == Cardinality({ i \in 1..M : LacksPrimaryMetric(api_data[i]) })
            kept == SelectSeq(api_data, HasPrimaryMetric)
        IN  /\ Len(records) = M - K
            /\ Len(records) = Len(kept)
            /\ \A j \in 1..Len(records) :
                  /\ records[j].intelligence_index # None
                  /\ records[j].aa_model_id = kept[j].id
                  /\ records[j].intelligence_index =
                        kept[j].evaluations.artificial_analysis_intelligence_index

C7_Witness ==
    /\ pc = "check"
    /\ Len(api_data) >= 3
    /\ Len(records) = 2
    /\ records[1].intelligence_index = 0
    /\ LacksPrimaryMetric(api_data[1])

\* ===================================================== claims: the matcher
\* The three rules, stated on positions of the list.
IsSuffixOf(suffix, str) ==
    \E k \in 0..Len(str) :
        /\ Len(str) - k = Len(suffix)
        /\ \A j \in 1..Len(suffix) : str[k + j] = suffix[j]

IsInfixOf(sub, str) ==
    \E k \in 0..Len(str) :
        /\ k + Len(sub) <= Len(str)
        /\ \A j \in 1..Len(sub) : str[k + j] = sub[j]

SameIgnoringCase(s, t) ==
    /\ Len(s) = Len(t)
    /\ \A j \in 1..Len(s) : Lower(s[j]) = Lower(t[j])

ExactAt == { i \in 1..Len(q_aa_slugs) : SameIgnoringCase(q_aa_slugs[i], q_provider_slug) }

SuffixAt == { i \in 1..Len(q_aa_slugs) :
                IsSuffixOf(LowerStr(q_provider_slug), LowerStr(q_aa_slugs[i])) }

InfixAt == { i \in 1..Len(q_aa_slugs) :
               IsInfixOf(LowerStr(q_provider_slug), LowerStr(q_aa_slugs[i])) }

Least(S) == CHOOSE i \in S : \A j \in S : i <= j

\* C6: the matcher applies exact > suffix > substring, all case-insensitive,
\* and returns the first slug of the list that qualifies under the winning
\* rule; None when no rule fires.
C6_MatchPriority ==
    q_pc = "done" =>
        q_result = IF ExactAt # {} THEN q_aa_slugs[Least(ExactAt)]
                   ELSE IF SuffixAt # {} THEN q_aa_slugs[Least(SuffixAt)]
                   ELSE IF InfixAt # {} THEN q_aa_slugs[Least(InfixAt)]
                   ELSE NoSlug

\* An exact match placed after a substring-only and a suffix-only candidate wins.
C6_Witness ==
    /\ q_pc = "done"
    /\ Len(q_aa_slugs) = 3
    /\ 1 \in InfixAt \ SuffixAt
    /\ 2 \in SuffixAt \ ExactAt
    /\ ExactAt = {3}
    /\ q_result = q_aa_slugs[3]
    /\ q_aa_slugs[3] # q_provider_slug

\* ================================================= claims: the mapping job
\* A run of the mapping pipeline has ended.
RunEnded == mpc = "exit" /\ mruns > 0

\* Every model of the run went unmatched against a non-empty aa_slug list.
AllUnmatched ==
    /\ m_models # <<>>
    /\ m_aa_slugs # <<>>
    /\ ~MatchRaises(m_aa_slugs)
    /\ \A i \in 1..Len(m_models) :
         match_provider_slug_to_aa_slug(m_models[i][2], m_models[i][1], m_aa_slugs) = NoSlug

\* C4: a run in which every pair is unmatched against a non-empty aa_slug set
\* (and no database step fails) still succeeds: main returns True, the exit
\* status is 0, and no mapping is inserted.
C4_AllUnmatchedSucceeds ==
    (RunEnded /\ AllUnmatched /\ mfailed \in {"none", "no_mappings"})
        => /\ success = "True"
           /\ MappingExitStatus = 0
           /\ mapping = <<>>

\* The (inference_provider, provider_slug) pair of a mapping row.
PairOf(row) == << row.inference_provider, row.provider_slug >>

\* C9: the mapping table never holds two rows for the same
\* (inference_provider, provider_slug) pair, whatever runs came before and
\* however they ended.
C9_OneRowPerPair ==
    \A i, j \in 1..Len(mapping) : PairOf(mapping[i]) = PairOf(mapping[j]) => i = j

\* A second run, on a source table holding the same pair twice, refilled a
\* table that the first run had filled.
C9_Witness ==
    /\ RunEnded
    /\ mruns = 2
    /\ success = "True"
    /\ mapping0 # <<>>
    /\ Len(mapping) = 1
    /\ Len(working_version) = 2
    /\ working_version[1] = working_version[2]

\* C10: at the end of a run whose clear step succeeded the mapping table holds
\* no rows when the run failed and exactly the run's computed mappings when it
\* succeeded -- never the rows from before the run, never a part of the
\* mappings.
C10_EmptyOrFull ==
    (RunEnded /\ cleared)
        => \/ /\ success = "True"
              /\ m_mappings # <<>>
              /\ m_mappings = create_mappings(DistinctModels(working_version),
                                              DistinctSlugs(aa_table))
              /\ mapping = m_mappings
           \/ /\ success = "False"
              /\ mfailed \in {"no_models", "no_slugs", "match_error", "no_mappings", "insert"}
              /\ mapping = <<>>

\* A failed run left the table empty although it held rows before the run.
C10_Witness ==
    /\ RunEnded
    /\ cleared
    /\ success = "False"
    /\ mfailed = "insert"
    /\ Len(m_mappings) = 2
    /\ mapping0 # <<>>
    /\ mapping = <<>>

====
